---- MODULE Spec2Model ----
(***************************************************************************)
(* BuzzMarketing Media Converter: the orchestration of the shared FFmpeg   *)
(* engine by the page shell (app/page.tsx), the image converter component  *)
(* (ImageConverter, src/unnamed/part_000) and the video converter          *)
(* component (app/components/VideoConverter.tsx).                          *)
(*                                                                         *)
(* Every async function is a process whose program counter names the      *)
(* await it is suspended on; one action settles that await (resolved or    *)
(* rejected) and runs the synchronous code up to the next await.           *)
(***************************************************************************)
EXTENDS Integers, Sequences, FiniteSets, TLC

\* ---------------------------------------------------------------- bounds
\* Number of image files the user hands to the image converter in a session.
MaxImages == 2

\* File-name stems of the image files (file.name without its extension).
Stems == {"a", "b"}

\* Output formats the user switches between (two of formatOptions).
Formats == {"webp", "jpg"}

\* Number of image files in a session in which the user works with both
\* converters (specification Spec).
MaxSharedImages == 1

\* Number of analyzeVideo calls that can be suspended at the same time.
MaxProbes == 1

\* The video files the user picks from.
VideoFiles == {"v1", "v2"}

VARIABLES
    \* app/page.tsx
    loadPc,         \* position of load(): "init", "loading", "ready", "failed"
    ffmpeg,         \* ffmpegRef.current is set (TRUE) or null (FALSE)
    loaded,         \* useState loaded
    activeTab,      \* useState activeTab
    \* ImageConverter state
    images,         \* useState images: sequence of ImageItem
    outputFormat,   \* useState outputFormat
    processing,     \* useState processing
    zipUrl,         \* useState zipUrl: a bundle URL is set (TRUE) or null
    nextId,         \* number of ImageItems created so far (ids are 1..nextId)
    \* the running convertImages call
    imgPc,          \* "idle" or the await it is suspended on
    idx,            \* loop variable i (1-based)
    updatedImages,  \* local updatedImages
    runFormat,      \* outputFormat captured by the closure of the call ("-"
                    \* when no call is running)
    runQuality,     \* quality captured by the closure of the call (0 when no
                    \* call is running)
    zip,            \* local zip / folder: set of [name, id]
    \* the engine's virtual filesystem (image files)
    vfs,
    \* the object URLs of the items that are not revoked: [kind, id]
    handles,
    \* VideoConverter state
    videoFile,      \* useState videoFile: "null" or the file
    videoInfo,      \* useState videoInfo: "null", "parsed" (a resolution was
                    \* matched) or "unknown" (it was not)
    analyzing,      \* useState analyzing
    videoProcessing,\* useState processing
    videoOutputUrl, \* useState outputUrl is set (TRUE) or null
    \* the running analyzeVideo calls and the running convert call
    probes,         \* per slot: the await it is suspended on, and its file
    vidPc,          \* "idle" or the await convert is suspended on
    \* the engine's virtual filesystem (video files)
    vInput,         \* bytes held by 'input': "none" or the file written
    vOutput,        \* 'output.<format>' exists
    \* history
    discarded,      \* ids passed to removeImage so far
    lastRun,        \* summary of the running convertImages call, or of the
                    \* call that ended in the last step
    rejected,       \* entry point whose guard returned early in the last step
    \* the settings the engine arguments are planned from
    item,           \* the ImageItem whose card the user edits: file name,
                    \* original and target dimensions, keyword
    quality,        \* ImageConverter useState quality
    resolution,     \* VideoConverter useState resolution
    customWidth,    \* VideoConverter useState customWidth
    customHeight,   \* VideoConverter useState customHeight
    aspectRatio,    \* VideoConverter useState aspectRatio, the fraction <<w, h>>
    args,           \* local args of the conversion planned in the last step
    names,          \* zip entry name and outputName computed in the last step
    edited          \* the dimension field edited in the last step

imgVars == <<images, outputFormat, processing, zipUrl, nextId, imgPc, idx,
             updatedImages, runFormat, runQuality, zip, vfs, handles,
             discarded>>
pageVars == <<loadPc, ffmpeg, loaded, activeTab>>
customVars == <<resolution, customWidth, customHeight, aspectRatio>>
jobVars == <<videoFile, videoInfo, analyzing, videoProcessing, videoOutputUrl,
             probes, vidPc, vInput, vOutput>>
vidVars == <<jobVars, customVars>>
planVars == <<item, quality, args, names, edited>>
vars == <<pageVars, imgVars, vidVars, lastRun, rejected, planVars>>

\* ------------------------------------------------------------- data
\* interface ImageItem: id, file.name stem, status, and whether outputUrl /
\* outputName are set.
NewItem(id, stem) == [id |-> id, stem |-> stem, status |-> "idle", out |-> FALSE]

Ids(s) == {s[k].id : k \in 1..Len(s)}

ItemOf(s, id) == s[CHOOSE k \in 1..Len(s) : s[k].id = id]

\* prev.filter(i => i.id !== id)
RECURSIVE Filter(_, _)
Filter(s, id) ==
    IF s = <<>> THEN <<>>
    ELSE IF Head(s).id = id THEN Filter(Tail(s), id)
         ELSE <<Head(s)>> \o Filter(Tail(s), id)

\* img.preview = URL.createObjectURL(file) and img.outputUrl =
\* URL.createObjectURL(blob): the object URLs of the item id. An item that is
\* converted again gets a new output URL and the earlier one is not revoked,
\* so Output(id) stands for all of them.
Preview(id) == [kind |-> "preview", id |-> id]
Output(id) == [kind |-> "output", id |-> id]

\* names of the engine's virtual files of one item
InputName(id) == [kind |-> "input", id |-> id, fmt |-> "-"]
OutputName(id, fmt) == [kind |-> "output", id |-> id, fmt |-> fmt]

\* folder.file(`${originalName}.${outputFormat}`, data): a later entry of the
\* same name replaces the earlier one.
ZipFile(z, stem, fmt, id) ==
    {e \in z : e.name # <<stem, fmt>>} \cup {[name |-> <<stem, fmt>>, id |-> id]}

\* What the history records of one convertImages run: the ids and stems of the
\* items it was started on, whether one of them was already done, the ids
\* whose turn came (marked processing), the id and the operation whose await
\* rejected, how often the bundle was finalized and the entries it was
\* finalized with, and whether the run ended.
\* Also: the output format and the quality selected when it was started,
\* the format and the quality it read for the arguments of each item, and the
\* number of items created before it was started.
NoRun == [ids |-> {}, stems |-> {}, hadDone |-> FALSE, attempted |-> {},
          failed |-> {}, failedOp |-> "none", finalized |-> 0, bundle |-> {},
          ended |-> FALSE, format |-> "-", quality |-> 0, read |-> {},
          upTo |-> 0]

IdleProbe == [pc |-> "idle", file |-> "null"]

\* No card is being edited; no names have been computed.
NoItem == [id |-> "", name |-> <<>>, originalWidth |-> 0, originalHeight |-> 0,
           targetWidth |-> 0, targetHeight |-> 0, keyword |-> <<>>]
NoNames == [entry |-> "", outputName |-> ""]

TypeOK ==
    /\ loadPc \in {"init", "loading", "ready", "failed"}
    /\ ffmpeg \in BOOLEAN /\ loaded \in BOOLEAN
    /\ activeTab \in {"image", "video"}
    /\ processing \in BOOLEAN
    /\ outputFormat \in Formats \cup {"png"}
    /\ nextId \in 0..MaxImages
    /\ imgPc \in {"idle", "fetchFile", "writeFile", "exec", "readFile",
                  "deleteInput", "deleteOutput", "generateAsync"}
    /\ zipUrl \in BOOLEAN
    /\ runFormat \in Formats \cup {"png", "-"}
    /\ runQuality \in 0..100
    /\ handles \subseteq [kind : {"preview", "output"}, id : 1..nextId]
    /\ idx \in 0..(Len(updatedImages) + 1)
    /\ \A k \in 1..Len(images) :
           /\ images[k].id \in 1..nextId
           /\ images[k].stem \in Stems
           /\ images[k].status \in {"idle", "processing", "done", "error"}
           /\ images[k].out \in BOOLEAN
    /\ discarded \subseteq 1..nextId
    /\ rejected \in {"none", "convertImages", "analyzeVideo", "convert"}
    /\ videoFile \in VideoFiles \cup {"null"}
    /\ videoInfo \in {"null", "parsed", "unknown"}
    /\ analyzing \in BOOLEAN /\ videoProcessing \in BOOLEAN
    /\ videoOutputUrl \in BOOLEAN /\ vOutput \in BOOLEAN
    /\ vidPc \in {"idle", "exec", "readFile"}
    /\ vInput \in VideoFiles \cup {"none"}
    /\ \A p \in 1..MaxProbes :
           /\ probes[p].pc \in {"idle", "fetchFile", "writeFile", "exec"}
           /\ probes[p].file \in VideoFiles \cup {"null"}
    /\ quality \in 1..100
    /\ resolution \in {"original", "4k", "1440p", "1080p", "720p", "480p",
                        "360p", "custom"}
    /\ customWidth \in Int /\ customHeight \in Int
    /\ aspectRatio \in Nat \X Nat
    /\ args \in Seq(STRING)
    /\ names.entry \in STRING /\ names.outputName \in STRING
    /\ edited \in {"none", "width", "height", "customWidth", "customHeight"}
    /\ item.targetWidth \in Int /\ item.targetHeight \in Int

\* ------------------------------------------------------------- Init
InitPage ==
    loadPc = "init" /\ ffmpeg = FALSE /\ loaded = FALSE /\ activeTab = "image"

InitConverters ==
    /\ images = <<>> /\ outputFormat = "webp" /\ processing = FALSE
    /\ zipUrl = FALSE /\ nextId = 0
    /\ imgPc = "idle" /\ idx = 0 /\ updatedImages = <<>> /\ runFormat = "-"
    /\ runQuality = 0 /\ handles = {}
    /\ zip = {}
    /\ vfs = {}
    /\ discarded = {} /\ lastRun = NoRun
    /\ videoFile = "null" /\ videoInfo = "null" /\ analyzing = FALSE
    /\ videoProcessing = FALSE /\ videoOutputUrl = FALSE
    /\ probes = [p \in 1..MaxProbes |-> IdleProbe]
    /\ vidPc = "idle" /\ vInput = "none" /\ vOutput = FALSE
    /\ rejected = "none"

InitOrchestration == InitPage /\ InitConverters

\* VideoConverter useState resolution, customWidth, customHeight, aspectRatio
InitCustom ==
    /\ resolution = "original" /\ customWidth = 1920 /\ customHeight = 1080
    /\ aspectRatio = <<16, 9>>

Init ==
    /\ InitOrchestration
    /\ InitCustom
    /\ item = NoItem /\ quality = 100
    /\ args = <<>> /\ names = NoNames /\ edited = "none"

\* ------------------------------------------------------------- page shell
\* useEffect(() => { load() }): ffmpegRef.current is set before the await.
LoadStart ==
    /\ loadPc = "init"
    /\ loadPc' = "loading" /\ ffmpeg' = TRUE
    /\ UNCHANGED <<loaded, activeTab, imgVars, vidVars>>

\* await ffmpeg.load(...) settles: setLoaded(true), or the catch (loadingMsg).
LoadSettle(ok) ==
    /\ loadPc = "loading"
    /\ loadPc' = IF ok THEN "ready" ELSE "failed"
    /\ loaded' = ok
    /\ UNCHANGED <<ffmpeg, activeTab, imgVars, vidVars>>

\* The tab buttons; both converters stay mounted, the inactive one hidden.
SetActiveTab(t) ==
    /\ activeTab # t
    /\ activeTab' = t
    /\ UNCHANGED <<loadPc, ffmpeg, loaded, imgVars, vidVars>>

\* The converters are rendered only once loaded (page.tsx 102-125), and the
\* user reaches a converter's controls only on its tab.
ImageUi == loaded /\ activeTab = "image"
VideoUi == loaded /\ activeTab = "video"


\* ------------------------------------------------------------- image items
\* processFiles: setImages(prev => [...prev, ...newImages]) with one new
\* idle ImageItem per file, each with a fresh id.
RECURSIVE NewImages(_, _)
NewImages(files, first) ==
    IF files = <<>> THEN <<>>
    ELSE <<NewItem(first, Head(files))>> \o NewImages(Tail(files), first + 1)

processFiles(files) ==
    /\ images' = images \o NewImages(files, nextId + 1)
    /\ nextId' = nextId + Len(files)
    /\ handles' = handles \cup {Preview(id) : id \in (nextId + 1)..(nextId + Len(files))}
    /\ UNCHANGED <<outputFormat, processing, zipUrl, imgPc, idx, updatedImages,
                   runFormat, runQuality, zip, vfs, discarded>>

\* The file lists a user can hand over: 1..room files, any stems.
FileLists == UNION {[1..n -> Stems] : n \in 1..(MaxImages - nextId)}

\* <input type="file" disabled={processing} onChange={handleFileUpload}>
handleFileUpload ==
    /\ ImageUi /\ ~processing
    /\ \E files \in FileLists : processFiles(files)
    /\ UNCHANGED <<pageVars, vidVars>>

\* onDrop={handleDrop}: not disabled while a run is in progress.
handleDrop ==
    /\ ImageUi
    /\ \E files \in FileLists : processFiles(files)
    /\ UNCHANGED <<pageVars, vidVars>>

\* if (img) URL.revokeObjectURL(img.preview)
Revoked(h, img) == h \ {Preview(img.id)}

\* removeImage(id): the Trash / Eliminar button of any listed item.
removeImage(id) ==
    /\ ImageUi
    /\ id \in Ids(images)
    /\ images' = Filter(images, id)
    /\ discarded' = discarded \cup {id}
    /\ handles' = Revoked(handles, ItemOf(images, id))
    /\ UNCHANGED <<outputFormat, processing, zipUrl, nextId, imgPc, idx,
                   updatedImages, runFormat, runQuality, zip, vfs>>
    /\ UNCHANGED <<pageVars, vidVars>>

\* <select onChange={(e) => setOutputFormat(e.target.value)}>
setOutputFormat(f) ==
    /\ ImageUi
    /\ outputFormat # f
    /\ outputFormat' = f
    /\ UNCHANGED <<images, processing, zipUrl, nextId, imgPc, idx,
                   updatedImages, runFormat, runQuality, zip, vfs,
                   discarded, handles>>
    /\ UNCHANGED <<pageVars, vidVars>>

\* ------------------------------------------------------------- convertImages
\* Mutant: the guard without its test of the empty batch.
ConvertImagesRejectsUnloaded(l, f, n) == ~l \/ ~f

\* if (!loaded || !ffmpeg || images.length === 0) return;
ConvertImagesRejects(l, f, n) == ~l \/ ~f \/ n = 0

\* <button onClick={convertImages} disabled={images.length === 0 || processing}>
ConvertButtonEnabled == ~(Len(images) = 0 \/ processing)

\* Mutant: the whole batch is marked processing when an item's turn comes.
MarkAllProcessing(s, i) == [k \in 1..Len(s) |-> [s[k] EXCEPT !.status = "processing"]]

\* updatedImages[i].status = 'processing'
MarkProcessing(s, i) == [s EXCEPT ![i].status = "processing"]

\* updatedImages[i].status = 'done'; .outputUrl = url; .outputName = ...
MarkDone(s, i) == [s EXCEPT ![i].status = "done", ![i].out = TRUE]

\* Mutant: the run takes the items last added first.
RECURSIVE SnapshotReversed(_)
SnapshotReversed(s) ==
    IF s = <<>> THEN <<>> ELSE SnapshotReversed(Tail(s)) \o <<Head(s)>>

\* Mutant: the run works on the items that are not done yet (activeImages).
SnapshotOfPending(s) == SelectSeq(s, LAMBDA it : it.status # "done")

\* const updatedImages = [...images]
Snapshot(s) == s

\* for (let i = 0; i < updatedImages.length; i++): with an item left, the head
\* of the body (mark it processing, setImages with the run's own list) up to
\* the await of fetchFile(img.file); with none left, zip.generateAsync is
\* awaited. run is the history of the call so far.
Iterate(s, i, run) ==
    IF i <= Len(s)
    THEN /\ updatedImages' = MarkProcessing(s, i)
         /\ images' = MarkProcessing(s, i)
         /\ idx' = i
         /\ imgPc' = "fetchFile"
         /\ lastRun' = [run EXCEPT !.attempted = @ \cup {s[i].id}]
    ELSE /\ updatedImages' = s
         /\ idx' = i
         /\ imgPc' = "generateAsync"
         /\ lastRun' = run
         /\ UNCHANGED images

\* convertImages(): the early return, or setProcessing(true),
\* setZipUrl(null), a new JSZip, the copy of images, and the loop up to its
\* first await.
convertImages ==
    IF ConvertImagesRejects(loaded, ffmpeg, Len(images))
    THEN /\ rejected' = "convertImages"
         /\ UNCHANGED <<imgVars, lastRun>>
    ELSE /\ rejected' = "none"
         /\ processing' = TRUE
         /\ zipUrl' = FALSE
         /\ zip' = {}
         /\ runFormat' = outputFormat
         /\ runQuality' = quality
         /\ Iterate(Snapshot(images), 1,
                    [NoRun EXCEPT
                       !.ids = Ids(images),
                       !.stems = {images[k].stem : k \in 1..Len(images)},
                       !.hadDone = \E k \in 1..Len(images) :
                                      images[k].status = "done",
                       !.format = outputFormat,
                       !.quality = quality,
                       !.upTo = nextId])
         /\ UNCHANGED <<outputFormat, nextId, vfs, handles, discarded>>

\* The Convertir button.
ConvertImagesClick ==
    /\ ImageUi /\ ConvertButtonEnabled
    /\ convertImages
    /\ UNCHANGED <<pageVars, vidVars>>

\* Mutant: no catch and no finally; the rejection leaves convertImages as it
\* found things.
Rethrow(op, who) ==
    /\ imgPc' = "idle"
    /\ idx' = 0
    /\ updatedImages' = <<>>
    /\ zip' = {}
    /\ runFormat' = "-"
    /\ lastRun' = [lastRun EXCEPT !.failed = who, !.failedOp = op, !.ended = TRUE]
    /\ runQuality' = 0
    /\ UNCHANGED <<images, outputFormat, processing, zipUrl, nextId, handles,
                   discarded>>

\* catch (error) { alert } finally { setProcessing(false) }: the rejected
\* await of operation op ends the run; nothing else is touched.
CatchFinally(op, who) ==
    /\ processing' = FALSE
    /\ imgPc' = "idle"
    /\ idx' = 0
    /\ updatedImages' = <<>>
    /\ zip' = {}
    /\ runFormat' = "-"
    /\ lastRun' = [lastRun EXCEPT !.failed = who, !.failedOp = op, !.ended = TRUE]
    /\ runQuality' = 0
    /\ UNCHANGED <<images, outputFormat, zipUrl, nextId, handles, discarded>>

Cur == updatedImages[idx]

\* Mutant: the call reads the format selected now, as through a ref to the
\* state.
SelectedFormat == outputFormat

\* outputFormat and quality inside the running call: the constants of the
\* render whose handler was invoked.
ClosureFormat == runFormat
ClosureQuality == runQuality

\* await fetchFile(img.file)
FetchFileSettle(ok) ==
    /\ imgPc = "fetchFile"
    /\ IF ok
       THEN /\ imgPc' = "writeFile"
            /\ UNCHANGED <<images, outputFormat, processing, zipUrl, nextId, idx,
                           updatedImages, runFormat, runQuality, zip, vfs, discarded,
                           lastRun, handles>>
       ELSE CatchFinally("fetchFile", {Cur.id}) /\ UNCHANGED vfs
    /\ UNCHANGED <<pageVars, vidVars>>

\* await ffmpeg.writeFile(inputName, ...), then lines 158-184: the arguments
\* are built from outputFormat and quality and the exec is issued.
WriteFileSettle(ok) ==
    /\ imgPc = "writeFile"
    /\ IF ok
       THEN /\ vfs' = vfs \cup {InputName(Cur.id)}
            /\ imgPc' = "exec"
            /\ lastRun' = [lastRun EXCEPT !.read = @ \cup
                              {[id |-> Cur.id, format |-> ClosureFormat,
                                quality |-> ClosureQuality]}]
            /\ UNCHANGED <<images, outputFormat, processing, zipUrl, nextId, idx,
                           updatedImages, runFormat, runQuality, zip, discarded,
                           handles>>
       ELSE CatchFinally("writeFile", {Cur.id}) /\ UNCHANGED vfs
    /\ UNCHANGED <<pageVars, vidVars>>

\* await ffmpeg.exec(args): resolved, the output file exists; rejected, the
\* engine may or may not have created it (partial).
ExecSettle(ok, partial) ==
    /\ imgPc = "exec"
    /\ IF ok
       THEN /\ InputName(Cur.id) \in vfs
            /\ ~partial
            /\ vfs' = vfs \cup {OutputName(Cur.id, ClosureFormat)}
            /\ imgPc' = "readFile"
            /\ UNCHANGED <<images, outputFormat, processing, zipUrl, nextId, idx,
                           updatedImages, runFormat, runQuality, zip, discarded,
                           lastRun, handles>>
       ELSE /\ vfs' = IF partial THEN vfs \cup {OutputName(Cur.id, ClosureFormat)}
                      ELSE vfs
            /\ CatchFinally("exec", {Cur.id})
    /\ UNCHANGED <<pageVars, vidVars>>

\* await ffmpeg.readFile(outputName), then lines 187-207: the blob and its
\* URL, the zip entry, the item done with its output, setImages.
ReadFileSettle(ok) ==
    /\ imgPc = "readFile"
    /\ IF ok
       THEN /\ OutputName(Cur.id, ClosureFormat) \in vfs
            /\ zip' = ZipFile(zip, Cur.stem, ClosureFormat, Cur.id)
            /\ updatedImages' = MarkDone(updatedImages, idx)
            /\ images' = MarkDone(updatedImages, idx)
            /\ imgPc' = "deleteInput"
            /\ handles' = handles \cup {Output(Cur.id)}
            /\ UNCHANGED <<outputFormat, processing, zipUrl, nextId, idx,
                           runFormat, runQuality, vfs, discarded, lastRun>>
       ELSE CatchFinally("readFile", {Cur.id}) /\ UNCHANGED vfs
    /\ UNCHANGED <<pageVars, vidVars>>

\* await ffmpeg.deleteFile(inputName)
DeleteInputSettle(ok) ==
    /\ imgPc = "deleteInput"
    /\ IF ok
       THEN /\ vfs' = vfs \ {InputName(Cur.id)}
            /\ imgPc' = "deleteOutput"
            /\ UNCHANGED <<images, outputFormat, processing, zipUrl, nextId, idx,
                           updatedImages, runFormat, runQuality, zip, discarded,
                           lastRun, handles>>
       ELSE CatchFinally("deleteFile", {Cur.id}) /\ UNCHANGED vfs
    /\ UNCHANGED <<pageVars, vidVars>>

\* await ffmpeg.deleteFile(outputName); processedCount++; i++ and the loop
\* again.
DeleteOutputSettle(ok) ==
    /\ imgPc = "deleteOutput"
    /\ IF ok
       THEN /\ vfs' = vfs \ {OutputName(Cur.id, ClosureFormat)}
            /\ Iterate(updatedImages, idx + 1, lastRun)
            /\ UNCHANGED <<outputFormat, processing, zipUrl, nextId, runFormat, runQuality,
                           zip, discarded, handles>>
       ELSE CatchFinally("deleteFile", {Cur.id}) /\ UNCHANGED vfs
    /\ UNCHANGED <<pageVars, vidVars>>

\* await zip.generateAsync(...); setZipUrl(url); finally setProcessing(false)
GenerateAsyncSettle(ok) ==
    /\ imgPc = "generateAsync"
    /\ IF ok
       THEN /\ zipUrl' = TRUE
            /\ lastRun' = [lastRun EXCEPT !.finalized = @ + 1, !.bundle = zip,
                                          !.ended = TRUE]
            /\ processing' = FALSE
            /\ imgPc' = "idle"
            /\ idx' = 0
            /\ updatedImages' = <<>>
            /\ zip' = {}
            /\ runFormat' = "-"
            /\ runQuality' = 0
            /\ UNCHANGED <<images, outputFormat, nextId, handles, discarded>>
       ELSE CatchFinally("generateAsync", {})
    /\ UNCHANGED <<vfs, pageVars, vidVars>>

\* ------------------------------------------------------------- analyzeVideo
\* if (!loaded || !ffmpeg) return;
AnalyzeVideoRejects(l, f) == ~l \/ ~f

FreeProbes == {p \in 1..MaxProbes : probes[p].pc = "idle"}

\* finally { setAnalyzing(false) }: the call ends.
ProbeEnds(p) ==
    /\ analyzing' = FALSE
    /\ probes' = [probes EXCEPT ![p] = IdleProbe]

\* analyzeVideo(file): the early return, or setAnalyzing(true),
\* setVideoInfo(null), setOutputUrl(null) and the await of fetchFile(file).
analyzeVideo(file) ==
    IF AnalyzeVideoRejects(loaded, ffmpeg)
    THEN /\ rejected' = "analyzeVideo"
         /\ UNCHANGED <<analyzing, videoInfo, videoOutputUrl, probes>>
    ELSE /\ rejected' = "none"
         /\ FreeProbes # {}
         /\ analyzing' = TRUE
         /\ videoInfo' = "null"
         /\ videoOutputUrl' = FALSE
         /\ probes' = [probes EXCEPT
                         ![CHOOSE p \in FreeProbes : \A q \in FreeProbes : p <= q]
                            = [pc |-> "fetchFile", file |-> file]]

\* <input type="file" onChange={handleFileUpload} disabled={!loaded}>, shown
\* while no video file is selected: setVideoFile(file); await analyzeVideo(file)
videoHandleFileUpload(file) ==
    /\ VideoUi /\ videoFile = "null"
    /\ videoFile' = file
    /\ analyzeVideo(file)
    /\ UNCHANGED <<videoProcessing, vidPc, vInput, vOutput>>
    /\ UNCHANGED <<pageVars, imgVars, customVars>>

\* await fetchFile(file) inside the try
ProbeFetchFileSettle(p, ok) ==
    /\ probes[p].pc = "fetchFile"
    /\ IF ok
       THEN /\ probes' = [probes EXCEPT ![p].pc = "writeFile"]
            /\ UNCHANGED analyzing
       ELSE ProbeEnds(p)
    /\ UNCHANGED <<videoFile, videoInfo, videoProcessing, videoOutputUrl, vidPc,
                   vInput, vOutput>>
    /\ UNCHANGED <<pageVars, imgVars, customVars>>

\* await ffmpeg.writeFile('input', ...); then ffmpeg.on('log') and the exec
ProbeWriteFileSettle(p, ok) ==
    /\ probes[p].pc = "writeFile"
    /\ IF ok
       THEN /\ vInput' = probes[p].file
            /\ probes' = [probes EXCEPT ![p].pc = "exec"]
            /\ UNCHANGED analyzing
       ELSE ProbeEnds(p) /\ UNCHANGED vInput
    /\ UNCHANGED <<videoFile, videoInfo, videoProcessing, videoOutputUrl, vidPc,
                   vOutput>>
    /\ UNCHANGED <<pageVars, imgVars, customVars>>

\* What logOutput.match(/(\d{2,5})x(\d{2,5})/) finds in the log of a video:
\* its width and height.
ResolutionMatches == {<<1920, 1080>>, <<640, 480>>}

\* await ffmpeg.exec(['-i', 'input']) in its own try / catch: resolved or
\* rejected, the log is parsed; found says whether the resolution pattern
\* matched, and then setAspectRatio(w / h), setCustomWidth(w),
\* setCustomHeight(h). setVideoInfo, then finally.
ProbeExecSettle(p, ok, found) ==
    /\ probes[p].pc = "exec"
    /\ IF found
       THEN \E resolutionMatch \in ResolutionMatches :
                /\ aspectRatio' = resolutionMatch
                /\ customWidth' = resolutionMatch[1]
                /\ customHeight' = resolutionMatch[2]
       ELSE UNCHANGED <<aspectRatio, customWidth, customHeight>>
    /\ UNCHANGED resolution
    /\ videoInfo' = IF found THEN "parsed" ELSE "unknown"
    /\ ProbeEnds(p)
    /\ UNCHANGED <<videoFile, videoProcessing, videoOutputUrl, vidPc, vInput,
                   vOutput>>
    /\ UNCHANGED <<pageVars, imgVars>>

\* The X button of the file card (disabled={processing}) and the Nuevo Video
\* button (shown with outputUrl): setVideoFile(null), setVideoInfo(null),
\* setOutputUrl(null).
ClearVideo ==
    /\ VideoUi
    /\ \/ videoFile # "null" /\ ~videoProcessing
       \/ videoOutputUrl
    /\ videoFile' = "null"
    /\ videoInfo' = "null"
    /\ videoOutputUrl' = FALSE
    /\ UNCHANGED <<analyzing, videoProcessing, probes, vidPc, vInput, vOutput>>
    /\ UNCHANGED <<pageVars, imgVars, customVars>>

\* ------------------------------------------------------------- convert (video)
\* if (!loaded || !ffmpeg || !videoFile) return;
ConvertRejects(l, f, v) == ~l \/ ~f \/ v = "null"

\* Mutant: the button waits for the probe to have recognised the video.
VideoConvertButtonNeedsInfo ==
    ~videoOutputUrl /\ ~(videoFile = "null" \/ videoProcessing)
    /\ videoInfo = "parsed"

\* <button onClick={convert} disabled={!videoFile || processing}>, shown
\* while outputUrl is null.
VideoConvertButtonEnabled ==
    ~videoOutputUrl /\ ~(videoFile = "null" \/ videoProcessing)

\* convert(): the early return, or setProcessing(true), setOutputUrl(null),
\* the arguments, and the await of ffmpeg.exec(args).
convert ==
    IF ConvertRejects(loaded, ffmpeg, videoFile)
    THEN /\ rejected' = "convert"
         /\ UNCHANGED <<videoProcessing, videoOutputUrl, vidPc>>
    ELSE /\ rejected' = "none"
         /\ videoProcessing' = TRUE
         /\ videoOutputUrl' = FALSE
         /\ vidPc' = "exec"

\* The Comenzar Conversion button.
ConvertClick ==
    /\ VideoUi /\ VideoConvertButtonEnabled
    /\ convert
    /\ UNCHANGED <<videoFile, videoInfo, analyzing, probes, vInput, vOutput>>
    /\ UNCHANGED <<pageVars, imgVars, customVars>>

\* Mutant: no finally; the call ends with the flag as it is.
ConvertEndsWithoutFinally ==
    /\ vidPc' = "idle"
    /\ UNCHANGED videoProcessing

\* finally { ffmpeg.off(...); setProcessing(false) }
ConvertEnds ==
    /\ videoProcessing' = FALSE
    /\ vidPc' = "idle"

\* await ffmpeg.exec(args): it can resolve only with an input to read.
ConvertExecSettle(ok, partial) ==
    /\ vidPc = "exec"
    /\ IF ok
       THEN /\ vInput # "none"
            /\ ~partial
            /\ vOutput' = TRUE
            /\ vidPc' = "readFile"
            /\ UNCHANGED videoProcessing
       ELSE /\ vOutput' = (vOutput \/ partial)
            /\ ConvertEnds
    /\ UNCHANGED <<videoFile, videoInfo, analyzing, videoOutputUrl, probes, vInput>>
    /\ UNCHANGED <<pageVars, imgVars, customVars>>

\* await ffmpeg.readFile(outputFilename); setOutputUrl(url); finally
ConvertReadFileSettle(ok) ==
    /\ vidPc = "readFile"
    /\ IF ok
       THEN vOutput /\ videoOutputUrl' = TRUE
       ELSE UNCHANGED videoOutputUrl
    /\ ConvertEnds
    /\ UNCHANGED <<videoFile, videoInfo, analyzing, probes, vInput, vOutput>>
    /\ UNCHANGED <<pageVars, imgVars, customVars>>

\* ------------------------------------------------------------- entry guards
\* The engine is not ready: not loaded, or no handle.
EngineUnready == ~loaded \/ ~ffmpeg

\* A call of an entry point while the engine is not ready (for convertImages,
\* also while the batch is empty). The controls that call them are disabled or
\* not mounted in these states, so these are direct calls of the functions.
ConvertImagesUnready ==
    /\ EngineUnready \/ Len(images) = 0
    /\ convertImages
    /\ UNCHANGED <<pageVars, vidVars>>

AnalyzeVideoUnready ==
    /\ EngineUnready
    /\ \E file \in VideoFiles : analyzeVideo(file)
    /\ UNCHANGED <<videoFile, videoProcessing, vidPc, vInput, vOutput>>
    /\ UNCHANGED <<pageVars, imgVars, customVars, lastRun>>

ConvertUnready ==
    /\ EngineUnready
    /\ convert
    /\ UNCHANGED <<videoFile, videoInfo, analyzing, probes, vInput, vOutput>>
    /\ UNCHANGED <<pageVars, imgVars, customVars, lastRun>>

\* ------------------------------------------------------------- Next
\* The history keeps a run's summary for the one state that follows its end.
Forget == IF lastRun.ended THEN NoRun ELSE lastRun

LoadStep ==
    \/ LoadStart
    \/ \E ok \in BOOLEAN : LoadSettle(ok)

TabStep == \E t \in {"image", "video"} : SetActiveTab(t)

ImageUserStep ==
    \/ handleFileUpload
    \/ handleDrop
    \/ \E id \in 1..MaxImages : removeImage(id)

ImageRunStep ==
    \/ \E ok \in BOOLEAN : FetchFileSettle(ok)
    \/ \E ok \in BOOLEAN : WriteFileSettle(ok)
    \/ \E ok \in BOOLEAN, partial \in BOOLEAN : ExecSettle(ok, partial)
    \/ \E ok \in BOOLEAN : ReadFileSettle(ok)
    \/ \E ok \in BOOLEAN : DeleteInputSettle(ok)
    \/ \E ok \in BOOLEAN : DeleteOutputSettle(ok)
    \/ \E ok \in BOOLEAN : GenerateAsyncSettle(ok)

VideoUserStep ==
    \/ \E file \in VideoFiles : videoHandleFileUpload(file)
    \/ ClearVideo /\ rejected' = "none"
    \/ ConvertClick

VideoRunStep ==
    \/ \E p \in 1..MaxProbes, ok \in BOOLEAN : ProbeFetchFileSettle(p, ok)
    \/ \E p \in 1..MaxProbes, ok \in BOOLEAN : ProbeWriteFileSettle(p, ok)
    \/ \E p \in 1..MaxProbes, ok \in BOOLEAN, found \in BOOLEAN :
           ProbeExecSettle(p, ok, found)
    \/ \E ok \in BOOLEAN, partial \in BOOLEAN : ConvertExecSettle(ok, partial)
    \/ \E ok \in BOOLEAN : ConvertReadFileSettle(ok)

Unready ==
    \/ ConvertImagesUnready
    \/ AnalyzeVideoUnready
    \/ ConvertUnready

\* The image converter alone, the output format left as it is: the user stays
\* on the image tab, so the video converter keeps its initial state.
NextImage ==
    \/ /\ LoadStep \/ ImageUserStep
       /\ lastRun' = Forget /\ rejected' = "none" /\ UNCHANGED planVars
    \/ ConvertImagesClick /\ UNCHANGED planVars
    \/ ImageRunStep /\ rejected' = "none" /\ UNCHANGED planVars
    \/ Unready /\ UNCHANGED planVars

SpecImage == Init /\ [][NextImage]_vars

\* The video converter alone: no image is ever added.
NextVideo ==
    \/ /\ LoadStep \/ TabStep
       /\ lastRun' = Forget /\ rejected' = "none" /\ UNCHANGED planVars
    \/ VideoUserStep /\ lastRun' = Forget /\ UNCHANGED planVars
    \/ VideoRunStep /\ lastRun' = Forget /\ rejected' = "none"
          /\ UNCHANGED planVars
    \/ Unready /\ UNCHANGED planVars

SpecVideo == Init /\ [][NextVideo]_vars


\* Both converters on the one engine: the user switches between the tabs
\* while calls of either converter are suspended on the engine.
Next ==
    \/ /\ \/ LoadStep
          \/ TabStep
          \/ ImageUserStep /\ nextId' <= MaxSharedImages
       /\ lastRun' = Forget /\ rejected' = "none" /\ UNCHANGED planVars
    \/ ConvertImagesClick /\ UNCHANGED planVars
    \/ ImageRunStep /\ rejected' = "none" /\ UNCHANGED planVars
    \/ VideoUserStep /\ lastRun' = Forget /\ UNCHANGED planVars
    \/ VideoRunStep /\ lastRun' = Forget /\ rejected' = "none"
          /\ UNCHANGED planVars
    \/ Unready /\ UNCHANGED planVars

Spec == Init /\ [][Next]_vars

\* ============================================================= planning
\* What the planning specifications leave alone: the page, the image batch
\* and the video job.
orchVars == <<pageVars, imgVars, jobVars, lastRun, rejected>>

\* The settings of one image card and of the video form, and the engine
\* arguments computed from them. The arithmetic is JavaScript's: numbers are
\* doubles, Math.round rounds a half upwards.

\* Largest number the user types into a dimension field.
MaxValue == 8

\* Math.round(n / d) of the exact quotient, d > 0.
MathRound(n, d) == (2 * n + d) \div (2 * d)

\* Mutant: the quotient cut down to the integer below it.
TruncatedQuotients(n, d) == {n \div d}

\* Math.round of a quotient computed through the double w / h: the exact
\* quotient rounded, except that a quotient exactly half-way between two
\* integers may come out of the two floating-point divisions just below the
\* half and round downwards.
RoundedQuotients(n, d) ==
    {MathRound(n, d)}
    \cup (IF (2 * n + d) % (2 * d) = 0 THEN {MathRound(n, d) - 1} ELSE {})

\* Number.prototype.toString, and a number inside a template literal: the
\* decimal digits, a minus sign before those of a negative number.
Digit(d) ==
    CASE d = 0 -> "0" [] d = 1 -> "1" [] d = 2 -> "2" [] d = 3 -> "3"
      [] d = 4 -> "4" [] d = 5 -> "5" [] d = 6 -> "6" [] d = 7 -> "7"
      [] d = 8 -> "8" [] d = 9 -> "9"

RECURSIVE Digits(_)
Digits(n) == IF n < 10 THEN Digit(n) ELSE Digits(n \div 10) \o Digit(n % 10)

toString(n) == IF n < 0 THEN "-" \o Digits(-n) ELSE Digits(n)

\* processFiles: the ImageItem of a file of the given name and dimensions.
NewCard(name, w, h) ==
    [id |-> "k3j9x0q2m", name |-> name,
     originalWidth |-> w, originalHeight |-> h,
     targetWidth |-> w, targetHeight |-> h, keyword |-> <<>>]

\* img.width, img.height of the files the user adds.
Originals == {<<1920, 1080>>, <<4, 3>>, <<1, 6>>}

\* parseInt(e.target.value) || 0 of a number field.
DimValues == ((-1)..MaxValue) \cup {960, 1001}

\* handleDimensionChange(id, dimension, value): img.aspectRatio is
\* originalWidth / originalHeight.
handleDimensionChange(dimension, value) ==
    /\ ImageUi
    /\ item # NoItem
    /\ IF dimension = "width"
       THEN \E newH \in RoundedQuotients(value * item.originalHeight,
                                         item.originalWidth) :
                item' = [item EXCEPT !.targetWidth = value, !.targetHeight = newH]
       ELSE \E newW \in RoundedQuotients(value * item.originalWidth,
                                         item.originalHeight) :
                item' = [item EXCEPT !.targetHeight = value, !.targetWidth = newW]
    /\ edited' = dimension
    /\ args' = <<>>
    /\ UNCHANGED <<quality, names, customVars>>

\* resolutionOptions
ResolutionOptions ==
    {"original", "4k", "1440p", "1080p", "720p", "480p", "360p", "custom"}

\* <select onChange={(e) => setResolution(e.target.value)}>
setResolution(r) ==
    /\ VideoUi
    /\ resolution # r
    /\ resolution' = r
    /\ edited' = "none"
    /\ args' = <<>>
    /\ UNCHANGED <<customWidth, customHeight, aspectRatio, item, quality, names>>

\* handleWidthChange: the Ancho field, shown in custom mode.
handleWidthChange(w) ==
    /\ VideoUi /\ resolution = "custom"
    /\ customWidth' = w
    /\ IF w > 0
       THEN \E h \in RoundedQuotients(w * aspectRatio[2], aspectRatio[1]) :
                customHeight' = h
       ELSE UNCHANGED customHeight
    /\ edited' = "customWidth"
    /\ args' = <<>>
    /\ UNCHANGED <<resolution, aspectRatio, item, quality, names>>

\* handleHeightChange: the Alto field, shown in custom mode.
handleHeightChange(h) ==
    /\ VideoUi /\ resolution = "custom"
    /\ customHeight' = h
    /\ IF h > 0
       THEN \E w \in RoundedQuotients(h * aspectRatio[1], aspectRatio[2]) :
                customWidth' = w
       ELSE UNCHANGED customWidth
    /\ edited' = "customHeight"
    /\ args' = <<>>
    /\ UNCHANGED <<resolution, aspectRatio, item, quality, names>>

\* The engine has loaded and the user is on one of the tabs.
LoadedPage(tab) ==
    loadPc = "ready" /\ ffmpeg = TRUE /\ loaded = TRUE /\ activeTab = tab

\* The card of an added image, and the video form as it is at first or after
\* a probe that matched a resolution.
InitDimensions ==
    /\ \E tab \in {"image", "video"} : LoadedPage(tab)
    /\ InitConverters
    /\ \E d \in Originals : item = NewCard(<<"a", ".", "p", "n", "g">>, d[1], d[2])
    /\ quality = 100
    /\ resolution = "original"
    /\ \/ customWidth = 1920 /\ customHeight = 1080 /\ aspectRatio = <<16, 9>>
       \/ \E m \in ResolutionMatches :
              customWidth = m[1] /\ customHeight = m[2] /\ aspectRatio = m
    /\ args = <<>> /\ names = NoNames /\ edited = "none"

\* ------------------------------------------------------------- video plan
\* formatOptions and codecOptions of the video form (some of them).
VideoFormats == {"mp4", "webm"}
CodecOptions == {"libx264", "libvpx-vp9", "copy"}

\* Mutant: the dimension cut down to the even number below it.
EvenTruncated(x) == (x \div 2) * 2

\* Math.round(x / 2) * 2
EvenRounded(x) == MathRound(x, 2) * 2

\* `scale=${w}:${h}`
Scale(w, h) == "scale=" \o toString(w) \o ":" \o toString(h)

\* convert, lines 107-119: the scale filter of the resolution mode.
VideoScaleArgs(r, cw, ch) ==
    IF r = "custom" THEN <<"-vf", Scale(EvenRounded(cw), EvenRounded(ch))>>
    ELSE IF r = "4k" THEN <<"-vf", Scale(-1, 2160)>>
    ELSE IF r = "1440p" THEN <<"-vf", Scale(-1, 1440)>>
    ELSE IF r = "1080p" THEN <<"-vf", Scale(-1, 1080)>>
    ELSE IF r = "720p" THEN <<"-vf", Scale(-1, 720)>>
    ELSE IF r = "480p" THEN <<"-vf", Scale(-1, 480)>>
    ELSE IF r = "360p" THEN <<"-vf", Scale(-1, 360)>>
    ELSE <<>>

\* convert, lines 121-129: the codec.
VideoCodecArgs(fmt, codec) ==
    IF codec # "copy"
    THEN <<"-c:v", codec>>
         \o (IF fmt = "mp4" /\ codec = "libx264" THEN <<"-preset", "fast">>
             ELSE <<>>)
    ELSE <<"-c:v", "copy">>

\* convert, lines 104-131: args for the selected format and codec.
VideoArgs(r, cw, ch, fmt, codec) ==
    <<"-i", "input">> \o VideoScaleArgs(r, cw, ch) \o VideoCodecArgs(fmt, codec)
    \o <<"output." \o fmt>>

\* convert builds its arguments from the form as it is.
convertArgs ==
    /\ VideoUi
    /\ \E fmt \in VideoFormats, codec \in CodecOptions :
           args' = VideoArgs(resolution, customWidth, customHeight, fmt, codec)
    /\ edited' = "none"
    /\ UNCHANGED <<customVars, item, quality, names>>

\* ------------------------------------------------------------- image plan
\* File names and keywords are sequences of characters.
\* Longest keyword the user types, apart from the sample keyword.
MaxKeywordLen == 2

\* Characters the user types into the keyword field.
KeyChars == {"a", "_", " ", "!"}

SummerSale ==
    <<"S", "u", "m", "m", "e", "r", " ", "S", "a", "l", "e", "!", "!">>

\* e.target.value of the keyword field
Keywords ==
    UNION {[1..n -> KeyChars] : n \in 0..MaxKeywordLen} \cup {SummerSale}

\* file.name of the files the user adds
FileNames ==
    { <<"a", ".", "p", "n", "g">>,
      <<"a", ".", "b", ".", "p", "n", "g">>,
      <<"a", "b">> }

\* The characters of a sequence as one string.
RECURSIVE Str(_)
Str(cs) == IF cs = <<>> THEN "" ELSE Head(cs) \o Str(Tail(cs))

\* String.prototype.trim (the white space typed is the blank).
RECURSIVE TrimStart(_)
TrimStart(cs) ==
    IF cs # <<>> /\ Head(cs) = " " THEN TrimStart(Tail(cs)) ELSE cs

RECURSIVE TrimEnd(_)
TrimEnd(cs) ==
    IF cs # <<>> /\ cs[Len(cs)] = " " THEN TrimEnd(SubSeq(cs, 1, Len(cs) - 1))
    ELSE cs

Trim(cs) == TrimEnd(TrimStart(cs))

\* The class [a-zA-Z0-9-_]
WordChars ==
    {"a", "b", "c", "d", "e", "f", "g", "h", "i", "j", "k", "l", "m", "n",
     "o", "p", "q", "r", "s", "t", "u", "v", "w", "x", "y", "z",
     "A", "B", "C", "D", "E", "F", "G", "H", "I", "J", "K", "L", "M", "N",
     "O", "P", "Q", "R", "S", "T", "U", "V", "W", "X", "Y", "Z",
     "0", "1", "2", "3", "4", "5", "6", "7", "8", "9", "-", "_"}

\* .replace(/[^a-zA-Z0-9-_]/g, '-')
Sanitized(cs) == [k \in 1..Len(cs) |-> IF cs[k] \in WordChars THEN cs[k] ELSE "-"]

\* String.prototype.split('.')
RECURSIVE Split(_)
Split(cs) ==
    LET dots == {k \in 1..Len(cs) : cs[k] = "."} IN
    IF dots = {} THEN <<cs>>
    ELSE LET k == CHOOSE d \in dots : \A e \in dots : d <= e IN
         <<SubSeq(cs, 1, k - 1)>> \o Split(SubSeq(cs, k + 1, Len(cs)))

\* Array.prototype.join('.')
RECURSIVE Join(_)
Join(parts) ==
    IF parts = <<>> THEN <<>>
    ELSE IF Len(parts) = 1 THEN parts[1]
    ELSE parts[1] \o <<".">> \o Join(Tail(parts))

\* img.file.name.split('.').slice(0, -1).join('.')
OriginalName(name) == Join(SubSeq(Split(name), 1, Len(Split(name)) - 1))

\* folder.file(`${originalName}.${outputFormat}`, data): the entry's name
EntryName(img, fmt) == Str(OriginalName(img.name)) \o "." \o fmt

\* Mutant: the keyword counts as soon as it has a character.
HasKeywordUntrimmed(img) == img.keyword # <<>>

\* img.keyword && img.keyword.trim() !== ""
HasKeyword(img) == img.keyword # <<>> /\ Trim(img.keyword) # <<>>

\* lines 198-205: finalName and updatedImages[i].outputName
FinalName(img) ==
    IF HasKeyword(img) THEN Sanitized(Trim(img.keyword))
    ELSE Split(img.name)[1]

OutputFileName(img, fmt) == Str(FinalName(img)) \o "." \o fmt

\* Mutant: the filter carries the dimensions of the source.
ResizeArgsFromSource(img) ==
    IF img.targetWidth # img.originalWidth
       \/ img.targetHeight # img.originalHeight
    THEN <<"-vf", Scale(img.originalWidth, img.originalHeight)>>
    ELSE <<>>

\* lines 160-163: Resize
ResizeArgs(img) ==
    IF img.targetWidth # img.originalWidth
       \/ img.targetHeight # img.originalHeight
    THEN <<"-vf", Scale(img.targetWidth, img.targetHeight)>>
    ELSE <<>>

\* Mutant: the scaled quality is floored before it is taken from 31.
JpegQualityCeiling(q) ==
    LET ceiling == 31 - ((q - 1) * 29) \div 99 IN
    IF ceiling < 2 THEN 2 ELSE ceiling

\* Math.max(2, Math.floor(31 - ((quality - 1) * (29) / 99)))
JpegQuality(q) ==
    LET floor == (31 * 99 - (q - 1) * 29) \div 99 IN
    IF floor < 2 THEN 2 ELSE floor

\* Mutant: the quality is inverted, as the jpg scale is.
WebpQualityInverted(q) == 101 - q

\* quality.toString() of the webp branch: the quality itself
WebpQuality(q) == q

\* lines 165-171: Quality
QualityArgs(fmt, q) ==
    IF fmt = "jpg" \/ fmt = "jpeg" THEN <<"-q:v", toString(JpegQuality(q))>>
    ELSE IF fmt = "webp" THEN <<"-quality", toString(WebpQuality(q))>>
    ELSE <<>>

\* metaTags
MetaTags == <<"title", "description", "comment", "author", "copyright", "ICRD">>

\* metaTags.forEach(tag => args.push('-metadata', `${tag}=${img.keyword}`))
RECURSIVE MetadataFor(_, _)
MetadataFor(tags, keyword) ==
    IF tags = <<>> THEN <<>>
    ELSE <<"-metadata", Head(tags) \o "=" \o Str(keyword)>>
         \o MetadataFor(Tail(tags), keyword)

\* lines 173-180: Metadata & Keyword handling
MetadataArgs(img) ==
    IF HasKeyword(img) THEN MetadataFor(MetaTags, img.keyword) ELSE <<>>

\* lines 153-182: args of the conversion of one item
ImageArgs(img, fmt, q) ==
    <<"-i", "input_" \o img.id>>
    \o ResizeArgs(img) \o QualityArgs(fmt, q) \o MetadataArgs(img)
    \o <<"output_" \o img.id \o "." \o fmt>>

\* formatOptions: the formats with a quality argument and one without
PlanFormats == {"jpg", "webp", "png"}

\* One turn of the loop of convertImages on the card, as far as the values it
\* computes: the arguments of the exec, the name of the zip entry and the
\* outputName of the item.
convertItem ==
    /\ ImageUi /\ item # NoItem
    /\ args' = ImageArgs(item, outputFormat, quality)
    /\ names' = [entry |-> EntryName(item, outputFormat),
                 outputName |-> OutputFileName(item, outputFormat)]
    /\ edited' = "none"
    /\ UNCHANGED <<item, quality, customVars>>

\* <input type="range" min="1" max="100" onChange={(e) => setQuality(...)}>
MinQuality == 1
MaxQuality == 100

setQuality(q) ==
    /\ ImageUi
    /\ q \in MinQuality..MaxQuality /\ q # quality
    /\ quality' = q
    /\ args' = <<>> /\ names' = NoNames /\ edited' = "none"
    /\ UNCHANGED <<item, customVars>>

\* handleKeywordChange(id, value)
handleKeywordChange(value) ==
    /\ ImageUi /\ item # NoItem
    /\ value # item.keyword
    /\ item' = [item EXCEPT !.keyword = value]
    /\ args' = <<>> /\ names' = NoNames /\ edited' = "none"
    /\ UNCHANGED <<quality, customVars>>

\* The format select, the planned values of the last step forgotten.
selectFormat(f) ==
    /\ setOutputFormat(f)
    /\ args' = <<>> /\ names' = NoNames /\ edited' = "none"
    /\ UNCHANGED <<item, quality, lastRun, rejected>>

\* The image tab with one card, the engine loaded.
InitCard(cardNames) ==
    /\ LoadedPage("image")
    /\ InitConverters /\ InitCustom
    /\ \E name \in cardNames : item = NewCard(name, 4, 3)
    /\ quality = 100
    /\ args = <<>> /\ names = NoNames /\ edited = "none"

\* The quality slider and the format select.
NextQuality ==
    \/ \E q \in MinQuality..MaxQuality : setQuality(q) /\ UNCHANGED orchVars
    \/ \E f \in PlanFormats : selectFormat(f)
    \/ convertItem /\ UNCHANGED orchVars

SpecQuality == InitCard({<<"a", ".", "p", "n", "g">>}) /\ [][NextQuality]_vars

\* The keyword field and the format select, for files of several names.
NextNames ==
    \/ \E value \in Keywords : handleKeywordChange(value) /\ UNCHANGED orchVars
    \/ \E f \in PlanFormats : selectFormat(f)
    \/ convertItem /\ UNCHANGED orchVars

SpecNames == InitCard(FileNames) /\ [][NextNames]_vars

\* ------------------------------------------------------------- SpecDimensions
\* The dimension fields of an image card and of the video form.
NextDimensions ==
    \/ \E dimension \in {"width", "height"}, value \in DimValues :
           handleDimensionChange(dimension, value) /\ UNCHANGED orchVars
    \/ \E r \in ResolutionOptions : setResolution(r) /\ UNCHANGED orchVars
    \/ \E w \in DimValues : handleWidthChange(w) /\ UNCHANGED orchVars
    \/ \E h \in DimValues : handleHeightChange(h) /\ UNCHANGED orchVars
    \/ convertArgs /\ UNCHANGED orchVars

SpecDimensions == InitDimensions /\ [][NextDimensions]_vars

\* ------------------------------------------------------------- SpecFormat
\* The positions of the quality slider the user moves it to.
RunQualities == {50, 100}

\* The image tab of the loaded page, no item enqueued yet.
InitSettings ==
    /\ LoadedPage("image")
    /\ InitConverters /\ InitCustom
    /\ item = NoItem /\ quality = 100
    /\ args = <<>> /\ names = NoNames /\ edited = "none"

\* The image converter alone: the user adds files, starts runs, and switches
\* the output format and moves the quality slider before and during the runs.
NextSettings ==
    \/ /\ handleFileUpload \/ handleDrop
       /\ lastRun' = Forget /\ rejected' = "none" /\ UNCHANGED planVars
    \/ ConvertImagesClick /\ UNCHANGED planVars
    \/ ImageRunStep /\ rejected' = "none" /\ UNCHANGED planVars
    \/ (\E f \in Formats : setOutputFormat(f))
          /\ lastRun' = Forget /\ rejected' = "none" /\ UNCHANGED planVars
    \/ (\E q \in RunQualities : setQuality(q))
          /\ UNCHANGED <<pageVars, imgVars, jobVars>>
          /\ lastRun' = Forget /\ rejected' = "none"

SpecFormat == InitSettings /\ [][NextSettings]_vars

\* ------------------------------------------------------------- SpecSettles
\* An await of the running convertImages call settles.
ImageRun == ImageRunStep /\ rejected' = "none" /\ UNCHANGED planVars

\* An await of a running analyzeVideo call settles.
ProbeRun ==
    /\ \/ \E p \in 1..MaxProbes, ok \in BOOLEAN : ProbeFetchFileSettle(p, ok)
       \/ \E p \in 1..MaxProbes, ok \in BOOLEAN : ProbeWriteFileSettle(p, ok)
       \/ \E p \in 1..MaxProbes, ok \in BOOLEAN, found \in BOOLEAN :
              ProbeExecSettle(p, ok, found)
    /\ lastRun' = Forget /\ rejected' = "none" /\ UNCHANGED planVars

\* An await of the running convert call settles.
ConvertRun ==
    /\ \/ \E ok \in BOOLEAN, partial \in BOOLEAN : ConvertExecSettle(ok, partial)
       \/ \E ok \in BOOLEAN : ConvertReadFileSettle(ok)
    /\ lastRun' = Forget /\ rejected' = "none" /\ UNCHANGED planVars

\* The loaded page on either tab, nothing enqueued or selected yet.
InitSettles ==
    /\ \E tab \in {"image", "video"} : LoadedPage(tab)
    /\ InitConverters /\ InitCustom
    /\ item = NoItem /\ quality = 100
    /\ args = <<>> /\ names = NoNames /\ edited = "none"

\* The user's steps on the tab, and the settling of the awaits.
NextSettles ==
    \/ ImageUserStep /\ lastRun' = Forget /\ rejected' = "none"
          /\ UNCHANGED planVars
    \/ ConvertImagesClick /\ UNCHANGED planVars
    \/ ImageRun
    \/ VideoUserStep /\ lastRun' = Forget /\ UNCHANGED planVars
    \/ ProbeRun
    \/ ConvertRun

\* Every call awaited by a run settles in the end, resolved or rejected: an
\* await of convertImages or of convert that is pending is not pending for
\* ever.
SpecSettles ==
    /\ InitSettles /\ [][NextSettles]_vars
    /\ WF_vars(ImageRun)
    /\ WF_vars(ConvertRun)

\* ------------------------------------------------------------- SpecPlan
\* The dimension fields and the keyword field of one card, and the arguments
\* planned from them.
NextPlan ==
    \/ \E dimension \in {"width", "height"}, value \in DimValues :
           handleDimensionChange(dimension, value) /\ UNCHANGED orchVars
    \/ \E value \in Keywords : handleKeywordChange(value) /\ UNCHANGED orchVars
    \/ \E f \in PlanFormats : selectFormat(f)
    \/ convertItem /\ UNCHANGED orchVars

SpecPlan == InitCard({<<"a", ".", "p", "n", "g">>}) /\ [][NextPlan]_vars

\* ------------------------------------------------------------- SpecVideoForm
\* The numbers typed into the custom fields while a video job is under way.
ManualValues == {0, 1001}

\* The video converter with its form: the user selects the custom mode and
\* types dimensions at any moment of the probe and of the conversion.
FormStep(edit) ==
    /\ edit
    /\ UNCHANGED <<pageVars, imgVars, jobVars>>
    /\ lastRun' = Forget /\ rejected' = "none"

NextVideoForm ==
    \/ NextVideo
    \/ \E r \in {"original", "custom"} : FormStep(setResolution(r))
    \/ \E w \in ManualValues : FormStep(handleWidthChange(w))
    \/ \E h \in ManualValues : FormStep(handleHeightChange(h))

SpecVideoForm == Init /\ [][NextVideoForm]_vars

\* ============================================================= properties
StatusOf(s, id) == ItemOf(s, id).status

Processing(s) == {k \in 1..Len(s) : s[k].status = "processing"}

\* Calls of ffmpeg.exec that have been issued and have not settled.
ExecInFlight ==
    (IF imgPc = "exec" THEN 1 ELSE 0)
    + Cardinality({p \in 1..MaxProbes : probes[p].pc = "exec"})
    + (IF vidPc = "exec" THEN 1 ELSE 0)

\* C1: in every reachable state at most one ffmpeg.exec is in flight on the
\* shared engine, whichever of convertImages, analyzeVideo and convert issued
\* it.
C1_AtMostOneExecInFlight == ExecInFlight <= 1

\* C2: a run in which the exec of exactly one item failed and every other
\* item of the batch succeeded has finalized a bundle, and the bundle holds
\* exactly the other N-1 items.
C2_OneFailureBundlesTheRest ==
    ( /\ lastRun.ended
      /\ lastRun.failedOp = "exec"
      /\ Cardinality(lastRun.failed) = 1
      /\ lastRun.attempted = lastRun.ids )
    => /\ zipUrl
       /\ lastRun.finalized = 1
       /\ Cardinality(lastRun.bundle) = Cardinality(lastRun.ids) - 1
       /\ {e.id : e \in lastRun.bundle} = lastRun.ids \ lastRun.failed

\* C3: when the exec of an item throws, the run ends with that item in status
\* error (not processing) and with every item of the batch attempted.
C3_FailedItemIsErrorRestAttempted ==
    (lastRun.ended /\ lastRun.failedOp = "exec")
    => /\ \A id \in lastRun.failed \cap Ids(images) :
              StatusOf(images, id) = "error"
       /\ lastRun.attempted = lastRun.ids

\* C4: the only per-item virtual files in the engine's filesystem are those
\* of the item the running call is working on; none is left of an item
\* already attempted, and none at all when no run is in progress.
C4_NoVirtualFileLeftBehind ==
    \A f \in vfs :
        /\ imgPc \notin {"idle", "generateAsync"}
        /\ f.id = updatedImages[idx].id

\* C5 (as claimed): an item in done or error never goes back to idle or
\* processing; it stays so or leaves the list.
C5_StatusNeverReverts ==
    [][\A k \in 1..Len(images) :
          images[k].status \in {"done", "error"}
          => \/ images[k].id \notin Ids(images')
             \/ StatusOf(images', images[k].id) \in {"done", "error"}]_vars

\* C5 (amended): an item in done or error keeps its status, or is discarded
\* by removeImage, or - a done item only - is marked processing again by the
\* loop of a convertImages run that has just reached it; it never goes back to
\* idle.
C5_DoneOnlyReprocessed ==
    [][\A k \in 1..Len(images) :
          images[k].status \in {"done", "error"}
          => LET id == images[k].id IN
             \/ id \notin Ids(images') /\ id \in discarded'
             \/ /\ id \in Ids(images')
                /\ StatusOf(images', id) = images[k].status
             \/ /\ id \in Ids(images')
                /\ images[k].status = "done"
                /\ StatusOf(images', id) = "processing"
                /\ imgPc' = "fetchFile"
                /\ imgPc # "fetchFile"
                /\ updatedImages'[idx'].id = id]_vars

\* A done item has been marked processing again by a re-run.
C5_Witness ==
    \E k \in 1..Len(images) : images[k].status = "processing" /\ images[k].out

\* C6: at most one item is processing in every state, and exactly one while
\* a batch run is active.
C6_ExactlyOneProcessing ==
    /\ Cardinality(Processing(images)) <= 1
    /\ processing => Cardinality(Processing(images)) = 1

\* The first half of C6 alone: never two items processing at once.
C6_AtMostOneProcessing == Cardinality(Processing(images)) <= 1

\* C7: an item discarded by removeImage is not in the item list, and is in no
\* bundle finalized after the discard.
C7_DiscardedStaysOut ==
    /\ discarded \cap Ids(images) = {}
    /\ (lastRun.ended /\ lastRun.finalized > 0)
       => {e.id : e \in lastRun.bundle} \cap discarded = {}

\* C8 (as claimed): a re-run on a batch that holds done items, in which every
\* item succeeds, produces a bundle with as many entries as the run has items.
C8_BundleCountIsItemCount ==
    ( /\ lastRun.ended /\ lastRun.hadDone
      /\ lastRun.failedOp = "none" /\ lastRun.finalized = 1 )
    => Cardinality(lastRun.bundle) = Cardinality(lastRun.ids)

\* C8 (amended): such a run produces a bundle whose entries are items of this
\* run only, one entry per distinct output file name (stem.format) among
\* them: as many as the run has items when their names differ, never more.
C8_BundleCountIsNameCount ==
    ( /\ lastRun.ended /\ lastRun.hadDone
      /\ lastRun.failedOp = "none" /\ lastRun.finalized = 1 )
    => /\ Cardinality(lastRun.bundle) = Cardinality(lastRun.stems)
       /\ {e.id : e \in lastRun.bundle} \subseteq lastRun.ids
       /\ {e.name[1] : e \in lastRun.bundle} = lastRun.stems
       /\ Cardinality(lastRun.bundle) <= Cardinality(lastRun.ids)

\* A successful re-run on two items of one stem: one entry for two items.
C8_Witness ==
    /\ lastRun.ended /\ lastRun.hadDone
    /\ lastRun.failedOp = "none" /\ lastRun.finalized = 1
    /\ Cardinality(lastRun.ids) = 2
    /\ Cardinality(lastRun.bundle) = 1

\* C9: every run that passed the entry guard and has ended finalized the
\* bundle exactly once, after every item had been attempted.
C9_FinalizedOncePerRun ==
    lastRun.ended
    => /\ lastRun.finalized = 1
       /\ lastRun.attempted = lastRun.ids

\* C10: a call of convertImages while the engine is not ready or the batch is
\* empty, and a call of analyzeVideo or convert while the engine is not ready,
\* changes nothing: no await is issued, and the items, the flags, the bundle
\* and output handles and the virtual files stay as they are.
C10_UnreadyCallIsNoOp ==
    [][(ConvertImagesUnready \/ AnalyzeVideoUnready \/ ConvertUnready)
       => UNCHANGED <<pageVars, imgVars, vidVars>>]_vars

\* convertImages has returned at once on an empty batch, a bundle URL of an
\* earlier run being set.
C10_Witness ==
    rejected = "convertImages" /\ loaded /\ images = <<>> /\ zipUrl

Abs(x) == IF x < 0 THEN -x ELSE x

\* other is n / d rounded to the nearest integer: within a half of it.
Nearest(other, n, d) == 2 * Abs(other * d - n) <= d

\* other differs from n / d by less than 1.
WithinOne(other, n, d) == Abs(other * d - n) < d

\* C11 (as claimed): after any edit of one dimension, of an image card or of
\* the video form, the other dimension differs from the exactly proportional
\* value by less than 1.
C11_OtherDimensionProportional ==
    /\ edited = "width"
       => WithinOne(item.targetHeight, item.targetWidth * item.originalHeight,
                    item.originalWidth)
    /\ edited = "height"
       => WithinOne(item.targetWidth, item.targetHeight * item.originalWidth,
                    item.originalHeight)
    /\ edited = "customWidth"
       => WithinOne(customHeight, customWidth * aspectRatio[2], aspectRatio[1])
    /\ edited = "customHeight"
       => WithinOne(customWidth, customHeight * aspectRatio[1], aspectRatio[2])

\* C11 (amended): an edit of one dimension of an image card sets the other
\* to the proportional value rounded to the nearest integer (so less than 1
\* from it; 1920x1080 with width 960 gives height 540), whatever the number
\* typed. In the video form this holds for a number above 0; a number that
\* is 0 or below leaves the other field as it was.
C11_ProportionalUnlessZero ==
    [][/\ edited' = "width"
          => Nearest(item'.targetHeight,
                     item'.targetWidth * item'.originalHeight,
                     item'.originalWidth)
       /\ edited' = "height"
          => Nearest(item'.targetWidth,
                     item'.targetHeight * item'.originalWidth,
                     item'.originalHeight)
       /\ (edited' \in {"width", "height"} /\ item'.originalWidth = 1920
              /\ item'.originalHeight = 1080 /\ item'.targetWidth = 960)
          => item'.targetHeight = 540
       /\ edited' = "customWidth"
          => IF customWidth' > 0
             THEN Nearest(customHeight', customWidth' * aspectRatio'[2],
                          aspectRatio'[1])
             ELSE customHeight' = customHeight
       /\ edited' = "customHeight"
          => IF customHeight' > 0
             THEN Nearest(customWidth', customHeight' * aspectRatio'[1],
                          aspectRatio'[2])
             ELSE customWidth' = customWidth]_vars

\* The width of a 1920x1080 image has been set to 960, the height is 540.
C11_Witness ==
    /\ edited = "width"
    /\ item.originalWidth = 1920 /\ item.originalHeight = 1080
    /\ item.targetWidth = 960 /\ item.targetHeight = 540

\* The arguments of a video conversion in custom mode have been computed in
\* the last step.
CustomPlanned ==
    /\ Len(args) >= 4 /\ args[2] = "input"
    /\ resolution = "custom"

\* The even integers next to x: x itself, or its two neighbours.
EvenNextTo(x) == {e \in (x - 1)..(x + 1) : e % 2 = 0}

\* C14 (as claimed): in custom mode the scale filter carries the requested
\* width and height each rounded to an even integer next to it, and a request
\* of 1001x563 is emitted as 1000x562.
C14_CustomScaleEvenRounded ==
    CustomPlanned
    => /\ args[3] = "-vf"
       /\ \E w \in EvenNextTo(customWidth), h \in EvenNextTo(customHeight) :
              args[4] = Scale(w, h)
       /\ (customWidth = 1001 /\ customHeight = 563)
          => args[4] = "scale=1000:562"

\* C14 (amended): in custom mode the scale filter carries the requested width
\* and height each rounded to an even integer: an even number is kept, an odd
\* number goes to the even number above it, so a request of 1001x563 is
\* emitted as 1002x564.
C14_CustomScaleOddRoundsUp ==
    CustomPlanned
    => /\ args[3] = "-vf"
       /\ args[4] = Scale(IF customWidth % 2 = 0 THEN customWidth
                          ELSE customWidth + 1,
                          IF customHeight % 2 = 0 THEN customHeight
                          ELSE customHeight + 1)
       /\ (customWidth = 1001 /\ customHeight = 563)
          => args[4] = "scale=1002:564"

\* A custom request of 1001x563 has been planned.
C14_Witness ==
    /\ CustomPlanned
    /\ customWidth = 1001 /\ customHeight = 563
    /\ args[4] = "scale=1002:564"

\* The arguments of the conversion of the card have been computed in the
\* last step, for the format and the quality now selected.
ItemPlanned == Len(args) > 0 /\ args[2] = "input_" \o item.id

\* C12: for the jpg format the value after -q:v is
\* clamp(floor(31 - (q - 1) * 29 / 99), 2, 31) of the quality q in 1..100: it
\* lies in 2..31, is 31 for q = 1 and 2 for q = 100, and no higher quality
\* gives a higher value.
C12_JpegQualityMapping ==
    (ItemPlanned /\ outputFormat = "jpg")
    => /\ quality \in 1..100
       /\ args[3] = "-q:v"
       /\ \E v \in 2..31 :
             /\ args[4] = toString(v)
             /\ \E f \in 0..31 :
                   /\ 99 * f <= 31 * 99 - (quality - 1) * 29
                   /\ 31 * 99 - (quality - 1) * 29 < 99 * (f + 1)
                   /\ v = IF f < 2 THEN 2 ELSE IF f > 31 THEN 31 ELSE f
             /\ \A q \in quality..100 : JpegQuality(q) <= v
       /\ quality = 1 => args[4] = "31"
       /\ quality = 100 => args[4] = "2"

\* The arguments for jpg at quality 50 carry the value 16.
C12_Witness ==
    /\ ItemPlanned /\ outputFormat = "jpg"
    /\ quality = 50 /\ args[3] = "-q:v" /\ args[4] = "16"

\* C13: for the webp format the value after -quality is the user's quality
\* itself, for every quality in 1..100.
C13_WebpQualityIdentity ==
    (ItemPlanned /\ outputFormat = "webp")
    => /\ quality \in 1..100
       /\ args[3] = "-quality"
       /\ args[4] = toString(quality)
       /\ quality = 7 => args[4] = "7"
       /\ quality = 42 => args[4] = "42"
       /\ quality = 100 => args[4] = "100"

\* The arguments for webp at quality 42 carry the value 42.
C13_Witness ==
    /\ ItemPlanned /\ outputFormat = "webp"
    /\ quality = 42 /\ args[3] = "-quality" /\ args[4] = "42"

\* The file name without its last extension.
Stem(name) ==
    LET dots == {k \in 1..Len(name) : name[k] = "."} IN
    IF dots = {} THEN name
    ELSE SubSeq(name, 1, (CHOOSE d \in dots : \A e \in dots : e <= d) - 1)

\* C15: the outputName of a converted item is, with a non-empty keyword, the
\* keyword with every character outside [a-zA-Z0-9-_] replaced by a hyphen
\* (Summer Sale!! gives Summer-Sale--), and with an empty keyword the stem of
\* the original file name; in both cases followed by a dot and the selected
\* output format.
C15_OutputNameFromTagOrStem ==
    names # NoNames
    => /\ names.outputName =
             Str(IF item.keyword # <<>> THEN Sanitized(item.keyword)
                 ELSE Stem(item.name)) \o "." \o outputFormat
       /\ item.keyword = SummerSale
          => names.outputName = "Summer-Sale--." \o outputFormat

\* C16: a converted item is entered in the bundle under the name that is its
\* outputName.
C16_EntryNameIsOutputName ==
    names # NoNames => names.entry = names.outputName

\* An awaited engine operation (or fetchFile, or generateAsync) of the
\* running convertImages call rejects.
ImageAwaitRejects ==
    \/ FetchFileSettle(FALSE)
    \/ WriteFileSettle(FALSE)
    \/ \E partial \in BOOLEAN : ExecSettle(FALSE, partial)
    \/ ReadFileSettle(FALSE)
    \/ DeleteInputSettle(FALSE)
    \/ DeleteOutputSettle(FALSE)
    \/ GenerateAsyncSettle(FALSE)

\* An awaited operation of the analyzeVideo call in slot p rejects.
ProbeAwaitRejects(p) ==
    \/ ProbeFetchFileSettle(p, FALSE)
    \/ ProbeWriteFileSettle(p, FALSE)
    \/ \E found \in BOOLEAN : ProbeExecSettle(p, FALSE, found)

\* An awaited engine operation of the running convert call rejects.
ConvertAwaitRejects ==
    \/ \E partial \in BOOLEAN : ConvertExecSettle(FALSE, partial)
    \/ ConvertReadFileSettle(FALSE)

\* C17: a rejected engine operation of convertImages, analyzeVideo or
\* convert is caught inside the call: the call ends in that step, its flag
\* (processing, analyzing) cleared by the finally, and the failure shows only
\* as the batch-level alert and in what the call leaves unset (no bundle, no
\* output); the items, the file and the other converter are left as they are.
C17_EngineFailureIsCaught ==
    [][/\ ImageAwaitRejects
          => /\ imgPc' = "idle" /\ processing' = FALSE
             /\ lastRun'.ended /\ lastRun'.failedOp # "none"
             /\ lastRun'.finalized = 0 /\ zipUrl' = FALSE
             /\ images' = images
             /\ UNCHANGED <<pageVars, vidVars>>
       /\ \A p \in 1..MaxProbes :
             ProbeAwaitRejects(p)
             => /\ probes'[p].pc = "idle" /\ analyzing' = FALSE
                /\ videoFile' = videoFile
                /\ UNCHANGED <<pageVars, imgVars, videoProcessing, vidPc>>
       /\ ConvertAwaitRejects
          => /\ vidPc' = "idle" /\ videoProcessing' = FALSE
             /\ videoOutputUrl' = FALSE
             /\ UNCHANGED <<pageVars, imgVars, videoFile, analyzing, probes>>]_vars

\* The exec of an image run has rejected and the run has ended, while a
\* video is selected in the other converter.
C17_Witness ==
    /\ lastRun.ended /\ lastRun.failedOp = "exec"
    /\ imgPc = "idle" /\ ~processing
    /\ videoFile # "null"

\* The analyzeVideo call in slot p ends, whatever its outcome.
ProbeEnding(p) == probes[p].pc # "idle" /\ probes'[p].pc = "idle"

\* C18: whatever way the probe ends (fetchFile, writeFile or exec rejected,
\* or nothing recognised in the log), it ends with analyzing cleared, and the
\* conversion is not blocked by it: with the file still selected the guard
\* of convert lets the call through, and the button is enabled unless a
\* conversion is running or has produced its output; the custom mode and the
\* dimensions the user has typed are kept unless a resolution was recognised.
C18_ProbeNeverBlocksConvert ==
    [][\A p \in 1..MaxProbes :
          ProbeEnding(p)
          => /\ analyzing' = FALSE
             /\ videoFile' # "null"
                => ~ConvertRejects(loaded', ffmpeg', videoFile')
             /\ (videoFile' # "null" /\ ~videoProcessing' /\ ~videoOutputUrl')
                => VideoConvertButtonEnabled'
             /\ videoInfo' # "parsed" => UNCHANGED customVars
             /\ resolution' = resolution]_vars

\* The probe has ended without recognising anything, the user has typed a
\* custom width, and the conversion has been started.
C18_Witness ==
    /\ videoFile # "null" /\ videoInfo \in {"null", "unknown"}
    /\ ~analyzing /\ \A p \in 1..MaxProbes : probes[p].pc = "idle"
    /\ resolution = "custom" /\ customWidth = 1001
    /\ vidPc = "exec" /\ videoProcessing

\* C19: an item has an output (outputUrl, outputName) only while its status
\* is done, in every state, a re-run of a batch with converted items
\* included.
C19_OutputOnlyWhenDone ==
    \A k \in 1..Len(images) : images[k].out => images[k].status = "done"

\* C20: while a run is in progress its items are taken in the order in which
\* they were added (ids are given in that order): the items before the
\* current one have all had their turn and are done, their engine calls
\* settled, the current one is the only one an engine call is issued for, and
\* no item after it has had its turn.
C20_ItemsInEnqueueOrder ==
    imgPc # "idle"
    => /\ \A j, k \in 1..Len(updatedImages) :
              j < k => updatedImages[j].id < updatedImages[k].id
       /\ lastRun.attempted
             = {updatedImages[k].id : k \in 1..Len(updatedImages) \cap 1..idx}
       /\ \A k \in 1..Len(updatedImages) :
              /\ k < idx => updatedImages[k].status = "done"
              /\ k > idx => updatedImages[k].id \notin lastRun.attempted

\* The exec of the second item of a run is in flight, the first item done.
C20_Witness ==
    /\ imgPc = "exec" /\ idx = 2
    /\ updatedImages[1].status = "done"
    /\ updatedImages[2].status = "processing"

\* The target dimensions of the card differ from those of its source.
Resized ==
    item.targetWidth # item.originalWidth
    \/ item.targetHeight # item.originalHeight

\* C21: the arguments of an item hold a scale filter exactly when its target
\* dimensions differ from its source dimensions, in width or in height, and
\* the filter then carries the target width and height, not the source's.
C21_ScaleIffResized ==
    ItemPlanned
    => /\ Resized <=> args[3] = "-vf"
       /\ Cardinality({k \in 1..Len(args) : args[k] = "-vf"})
             = IF Resized THEN 1 ELSE 0
       /\ Resized
          => /\ args[4] = Scale(item.targetWidth, item.targetHeight)
             /\ args[4] # Scale(item.originalWidth, item.originalHeight)

\* The height of the 4x3 card has been set to 6: the filter is scale=8:6.
C21_Witness ==
    /\ ItemPlanned
    /\ item.targetWidth = 8 /\ item.targetHeight = 6
    /\ args[3] = "-vf" /\ args[4] = "scale=8:6"

\* The places of args that hold the metadata flag.
MetadataFlags == {k \in 1..Len(args) : args[k] = "-metadata"}

\* Every key of keys has exactly one directive in args, set to value.
OnePerKey(keys, value) ==
    \A t \in 1..Len(keys) :
        Cardinality({k \in MetadataFlags :
                        k < Len(args) /\ args[k + 1] = keys[t] \o "=" \o value}) = 1

\* C22 (as claimed): the arguments hold metadata directives exactly when the
\* keyword is non-empty, and then one per key of the six keys (the last one
\* the creation date, ICRD), each set to the keyword.
C22_MetadataIffTagNonEmpty ==
    ItemPlanned
    => IF item.keyword # <<>>
       THEN /\ Cardinality(MetadataFlags) = 6
            /\ OnePerKey(MetaTags, Str(item.keyword))
       ELSE MetadataFlags = {}

\* C22 (amended): the arguments hold metadata directives exactly when the
\* keyword has a character that is not a blank, and then exactly one per key
\* of title, description, comment, author, copyright, ICRD, each set to the
\* keyword as typed, blanks at its ends included.
C22_MetadataIffTagNotBlank ==
    ItemPlanned
    => IF \E k \in 1..Len(item.keyword) : item.keyword[k] # " "
       THEN /\ Cardinality(MetadataFlags) = 6
            /\ OnePerKey(<<"title", "description", "comment", "author",
                           "copyright", "ICRD">>, Str(item.keyword))
       ELSE MetadataFlags = {}

\* The arguments of an item with the keyword Summer Sale!! hold the six
\* directives.
C22_Witness ==
    /\ ItemPlanned /\ item.keyword = SummerSale
    /\ Cardinality(MetadataFlags) = 6
    /\ \E k \in MetadataFlags : args[k + 1] = "title=Summer Sale!!"

\* The ImageItem of the file enqueued as id: its target dimensions are its
\* own and it has no keyword.
Enqueued(id) == [NewCard(<<>>, 4, 3) EXCEPT !.id = toString(id)]

\* C23: every item of one run is converted with the output format and the
\* quality selected when the run was started, whatever the user selects
\* while it is in progress: the extension of its output file, its quality
\* argument and its zip entry agree with those two values.
C23_RunKeepsFormatAndQuality ==
    /\ \A p \in lastRun.read :
           LET a == ImageArgs(Enqueued(p.id), p.format, p.quality)
           IN  /\ a[Len(a)] = "output_" \o toString(p.id) \o "."
                                  \o lastRun.format
               /\ SubSeq(a, 3, Len(a) - 1)
                     = QualityArgs(lastRun.format, lastRun.quality)
    /\ \A e \in zip \cup lastRun.bundle : e.name[2] = lastRun.format

\* The exec of the second item of a run is issued, and neither the format nor
\* the quality selected is the one the run was started with.
C23_Witness ==
    /\ imgPc = "exec" /\ idx = 2
    /\ Cardinality(lastRun.read) = 2
    /\ outputFormat # lastRun.format
    /\ quality # lastRun.quality
\* C24: discarding an item releases every object URL it owns: after
\* removeImage(id) neither the preview URL of the item nor, for a done item,
\* its output URL is live.
C24_DiscardReleasesHandles ==
    [][\A id \in Ids(images) :
           images' = Filter(images, id)
           => /\ Preview(id) \notin handles'
              /\ Output(id) \notin handles']_vars
\* C25: whenever convert issues its exec, the virtual file input exists and
\* holds the bytes of the video file selected at that moment, however the
\* selection of files, the probe and the conversion interleave.
C25_InputIsSelectedVideo ==
    [][(vidPc # "exec" /\ vidPc' = "exec") => vInput = videoFile]_vars

\* The items enqueued while the run that has just ended was in progress, and
\* not discarded by the user.
EnqueuedDuringRun == ((lastRun.upTo + 1)..nextId) \ discarded

\* C26: an item enqueued while a run is in progress is not lost: when the
\* run has ended it is in the item list, in status idle.
C26_EnqueuedDuringRunIsKept ==
    lastRun.ended
    => \A id \in EnqueuedDuringRun :
           /\ id \in Ids(images)
           /\ ItemOf(images, id).status = "idle"

\* C27: when every awaited call settles in the end, every image run and
\* every video conversion that was started ends, in success or in failure,
\* with its processing flag cleared; the flag is set exactly as long as the
\* run lasts.
C27_RunsEndWithFlagCleared ==
    /\ [](processing <=> imgPc # "idle")
    /\ [](videoProcessing <=> vidPc # "idle")
    /\ processing ~> ~processing
    /\ videoProcessing ~> ~videoProcessing
    /\ (imgPc # "idle") ~> (imgPc = "idle" /\ ~processing)
    /\ (vidPc # "idle") ~> (vidPc = "idle" /\ ~videoProcessing)

\* An image run has just ended on a rejected exec, its flag cleared.
C27_Witness ==
    /\ lastRun.ended /\ lastRun.failedOp = "exec"
    /\ imgPc = "idle" /\ ~processing
====
